---- MODULE Spec2Model ----
(***************************************************************************)
(* Weather_Data_Analyzer: the weather data pipeline                        *)
(*   weather_api_service.py   get_city_weather and its helpers             *)
(*   weather_data_service.py  fetch_weather_data, get_weather_data_for_... *)
(*   weather_numpy_analyzer.py, weather_matplotlib_graph_generator.py,     *)
(*   weather_panda_data_handler.py: the stages the driver calls            *)
(*                                                                         *)
(*   main.py, weather_ui.py: the script that runs the pipeline, and the    *)
(*   server that names the latest charts                                   *)
(*                                                                         *)
(* The specifications share the definitions below:                         *)
(*   SpecClient    one call of get_city_weather on every response shape    *)
(*   Spec          one call of get_weather_data_for_cities                 *)
(*   SpecLive      one run of main.py, which runs on until it ends         *)
(*   SpecRuns      repeated runs of main.py while the clock advances       *)
(*   SpecUi        the same, with the server answering /api/charts         *)
(*   SpecAnalysis  one call of analyze_weather_data                        *)
(***************************************************************************)
EXTENDS Integers, Sequences, FiniteSets, TLC

VARIABLES
    apiKey,           \* os.getenv("WEATHER_API_KEY") is set and non-empty
    cities,           \* the cities argument
    output_file,      \* the output_file argument
    pc,               \* position in get_weather_data_for_cities
    idx,              \* fetch_weather_data: index of the city fetched next
    weather_records,  \* fetch_weather_data: the records appended so far
    gets,             \* gets[i]: requests.get calls made for cities[i]
    df,               \* the DataFrame of convert_to_dataframe
    stats,            \* the value analyze_weather_data returns
    correlation,      \* what analyze_humidity_correlation computed
    exc,              \* the exception that left get_weather_data_for_cities
    plotted,          \* the labelled points the dashboard and the scatter of
                      \* this run show
    charts_dir,       \* the directory Output/charts exists
    charts,           \* Output/charts: the PNG files, name |-> the run that
                      \* wrote it and the time it was written
    csv_files,        \* Output: the CSV files, name |-> run that wrote it
    save_result,      \* what save_to_csv returned in this run
    persisted,        \* runs in which save_to_csv returned True
    clock,            \* datetime.now(), in ticks of 1/TicksPerSecond second
    run,              \* number of the current run
    main,             \* main.py: the messages it logged and how it ended
    arg,              \* the arguments and environment of the call of SpecClient
                      \* and of SpecAnalysis
    ret               \* what that call did; SpecUi: what /api/charts answered

vars == <<apiKey, cities, output_file, pc, idx, weather_records, gets, df, stats,
          correlation, exc, plotted, charts_dir, charts, csv_files, save_result,
          persisted, clock, run, main, arg, ret>>

(***************************************************************************)
(* Bounds                                                                  *)
(***************************************************************************)
MaxCities == 3
MaxRuns == 2
MaxClock == 2
TicksPerSecond == 2

(***************************************************************************)
(* Python values. JSON null parses to None; a dict is a function whose     *)
(* DOMAIN is the set of keys present.                                      *)
(***************************************************************************)
None == [t |-> "None"]
Num(n) == [t |-> "num", n |-> n]
Str(s) == [t |-> "str", s |-> s]

\* the endpoint reports a temperature to a tenth of a degree: the model counts
\* tenths, and Deg(d) is d degrees
Deg(d) == 10 * d
Dict(d) == [t |-> "dict", d |-> d]
EmptyDict == Dict(<<>>)
IsDict(v) == v.t = "dict"

\* dict.get(key, default)
DictGet(v, key, default) == IF key \in DOMAIN v.d THEN v.d[key] ELSE default

\* the outcome of evaluating a call: a returned value or a raised exception
Return(v) == [exc |-> "none", value |-> v]
Raise(e) == [exc |-> e, value |-> None]

(***************************************************************************)
(* The exception classes of the except clauses, with their base classes    *)
(* (requests.exceptions and the builtins).                                 *)
(***************************************************************************)
Bases(e) ==
    CASE e = "ConnectTimeout" ->
            {"ConnectTimeout", "ConnectionError", "Timeout", "RequestException", "Exception"}
      [] e = "ReadTimeout" -> {"ReadTimeout", "Timeout", "RequestException", "Exception"}
      [] e = "ConnectionError" -> {"ConnectionError", "RequestException", "Exception"}
      [] e = "HTTPError" -> {"HTTPError", "RequestException", "Exception"}
      [] e = "JSONDecodeError" ->
            {"JSONDecodeError", "RequestException", "ValueError", "Exception"}
      [] e = "ValueError" -> {"ValueError", "Exception"}
      [] e = "AttributeError" -> {"AttributeError", "Exception"}
      [] e = "TypeError" -> {"TypeError", "Exception"}
      [] e = "KeyError" -> {"KeyError", "Exception"}
      [] e = "OSError" -> {"OSError", "IOError", "Exception"}
      [] e = "PermissionError" -> {"PermissionError", "OSError", "IOError", "Exception"}
      [] e = "UnicodeEncodeError" ->
            {"UnicodeEncodeError", "UnicodeError", "ValueError", "Exception"}
      [] OTHER -> {e}

IsInstance(e, cls) == cls \in Bases(e)

(***************************************************************************)
(* What the weather endpoint can answer to one GET.                        *)
(***************************************************************************)
TempCVals == {0, 25}
TempFVals == {77}
HumVals == {0, 60}
CondTexts == {"Sunny"}

NotJson == [t |-> "notjson"]

\* the dicts over the keys K whose values are drawn from vals[k]
DictsOver(K, vals) ==
    {Dict(f) : f \in {g \in [K -> UNION {vals[k] : k \in K}] :
                        \A k \in K : g[k] \in vals[k]}}

ConditionValues ==
    {None, Str("Sunny")}
        \cup DictsOver({"text"}, [text |-> {None} \cup {Str(s) : s \in CondTexts}])
        \cup {EmptyDict}

CurrentKeys == {"temp_c", "temp_f", "humidity", "condition"}

CurrentFieldValues ==
    [temp_c |-> {None} \cup {Num(v) : v \in TempCVals},
     temp_f |-> {None} \cup {Num(v) : v \in TempFVals},
     humidity |-> {None} \cup {Num(v) : v \in HumVals},
     condition |-> ConditionValues]

CurrentValues == UNION {DictsOver(K, CurrentFieldValues) : K \in SUBSET CurrentKeys}

\* a JSON document: an object with or without "current", or no object at all
JsonBodies ==
    {EmptyDict, Dict([current |-> None]), Str("error")}
        \cup {Dict([current |-> c]) : c \in CurrentValues}

NetworkFailures == {"ConnectTimeout", "ReadTimeout", "ConnectionError"}

\* net: what requests.get raised ("none": a response arrived);
\* status: the response's status code; body: the response's content
HttpResponse(status, body) == [net |-> "none", status |-> status, body |-> body]
NetFailure(e) == [net |-> e, status |-> 0, body |-> NotJson]

Responses ==
    {NetFailure(e) : e \in NetworkFailures}
        \cup {HttpResponse(s, NotJson) : s \in {200, 404, 500}}
        \cup {HttpResponse(200, b) : b \in JsonBodies}

(***************************************************************************)
(* weather_api_service.py                                                  *)
(***************************************************************************)
Sentinel(condition) ==
    [temperature |-> None, temperature_f |-> None, humidity |-> None,
     condition |-> Str(condition)]

\* get_weather_api_url without the check of the key
get_weather_api_url_unchecked(key, city) == Return(Str("url"))

\* a missing or empty key raises, otherwise the URL is built
get_weather_api_url(key, city) ==
    IF ~key THEN Raise("ValueError") ELSE Return(Str("url"))

handle_weather_api_response(weather_data) ==
    IF ~IsDict(weather_data) THEN Raise("AttributeError")
    ELSE
    LET current == DictGet(weather_data, "current", EmptyDict) IN
    IF ~IsDict(current) THEN Raise("AttributeError")
    ELSE
    LET condition == DictGet(current, "condition", EmptyDict) IN
    IF ~IsDict(condition) THEN Raise("AttributeError")
    ELSE Return([temperature |-> DictGet(current, "temp_c", None),
                 temperature_f |-> DictGet(current, "temp_f", None),
                 humidity |-> DictGet(current, "humidity", None),
                 condition |-> DictGet(condition, "text", Str("Unknown"))])

\* the body of the try statement: get, raise_for_status, json, handle
TryFetch(resp) ==
    IF resp.net # "none" THEN Raise(resp.net)
    ELSE IF resp.status >= 400 THEN Raise("HTTPError")
    ELSE IF resp.body = NotJson THEN Raise("JSONDecodeError")
    ELSE handle_weather_api_response(resp.body)

\* HandleFetch with except RequestException placed before except Timeout
HandleFetch_request_exception_first(outcome) ==
    IF outcome.exc = "none" THEN outcome
    ELSE IF IsInstance(outcome.exc, "RequestException") THEN Return(Sentinel("Unknown"))
    ELSE IF IsInstance(outcome.exc, "Timeout") THEN Return(Sentinel("Unavailable"))
    ELSE IF IsInstance(outcome.exc, "Exception") THEN Return(Sentinel("Unknown"))
    ELSE outcome

\* the except clauses, in their order; every clause but the first falls
\* through to the return at the end of the function
HandleFetch(outcome) ==
    IF outcome.exc = "none" THEN outcome
    ELSE IF IsInstance(outcome.exc, "Timeout") THEN Return(Sentinel("Unavailable"))
    ELSE IF IsInstance(outcome.exc, "HTTPError") THEN Return(Sentinel("Unknown"))
    ELSE IF IsInstance(outcome.exc, "RequestException") THEN Return(Sentinel("Unknown"))
    ELSE IF IsInstance(outcome.exc, "ValueError") THEN Return(Sentinel("Unknown"))
    ELSE IF IsInstance(outcome.exc, "Exception") THEN Return(Sentinel("Unknown"))
    ELSE outcome

\* GetCalls with a second attempt after a failed one
GetCalls_retry(outcome) == IF outcome.exc # "none" THEN 2 ELSE 1

\* requests.get calls one call of get_city_weather makes once the URL is built:
\* the call of line 22, which no loop repeats
GetCalls(outcome) == 1

\* get_city_weather building the URL before it looks at the city
get_city_weather_url_first(key, city, resp) ==
    LET url == get_weather_api_url(key, city) IN
    IF url.exc # "none" THEN [exc |-> url.exc, value |-> None, gets |-> 0]
    ELSE IF city = "" THEN [exc |-> "none", value |-> Sentinel("Unknown"), gets |-> 0]
    ELSE
    LET tried == TryFetch(resp)
        out == HandleFetch(tried)
    IN [exc |-> out.exc, value |-> out.value, gets |-> GetCalls(tried)]

\* exc, value: what the call raised or returned; gets: its requests.get calls
get_city_weather(key, city, resp) ==
    IF city = "" THEN [exc |-> "none", value |-> Sentinel("Unknown"), gets |-> 0]
    ELSE
    LET url == get_weather_api_url(key, city) IN
    IF url.exc # "none" THEN [exc |-> url.exc, value |-> None, gets |-> 0]
    ELSE
    LET tried == TryFetch(resp)
        out == HandleFetch(tried)
    IN [exc |-> out.exc, value |-> out.value, gets |-> GetCalls(tried)]

(***************************************************************************)
(* Sequences of records                                                    *)
(***************************************************************************)
RECURSIVE NonNull_none_as_zero(_, _)
\* NonNull reading a null as 0
NonNull_none_as_zero(records, field) ==
    IF records = <<>> THEN <<>>
    ELSE <<IF Head(records)[field] # None THEN Head(records)[field].n ELSE 0>>
         \o NonNull_none_as_zero(Tail(records), field)

RECURSIVE NonNull_truthy(_, _)
\* NonNull with the test "if record[field]", which a 0 fails
NonNull_truthy(records, field) ==
    IF records = <<>> THEN <<>>
    ELSE IF Head(records)[field] # None /\ Head(records)[field] # Num(0)
         THEN <<Head(records)[field].n>> \o NonNull_truthy(Tail(records), field)
         ELSE NonNull_truthy(Tail(records), field)

RECURSIVE NonNull(_, _)
\* [record[field] for record in records if record[field] is not None]
NonNull(records, field) ==
    IF records = <<>> THEN <<>>
    ELSE IF Head(records)[field] # None
         THEN <<Head(records)[field].n>> \o NonNull(Tail(records), field)
         ELSE NonNull(Tail(records), field)

\* zip(a, b) of two sequences of equal length
Zip(a, b) == [i \in 1..Len(a) |-> <<a[i], b[i]>>]

(***************************************************************************)
(* weather_data_service.py: fetch_weather_data                             *)
(***************************************************************************)
Names == {"", "London", "Tokyo"}

CityLists == UNION {[1..n -> Names] : n \in 0..MaxCities}

\* the record fetch_weather_data builds from what get_city_weather returned
\* (its timestamp column is read by no stage and is left out)
MakeRecord(city, weather_info) ==
    [city |-> city,
     temperature_c |-> weather_info.temperature,
     temperature_f |-> weather_info.temperature_f,
     humidity |-> weather_info.humidity,
     condition |-> weather_info.condition]

\* LoopBody leaving out the cities whose fetch gave no temperature
LoopBody_skip_failed(records, city, weather_info) ==
    IF weather_info.temperature = None THEN records
    ELSE Append(records, MakeRecord(city, weather_info))

\* the body of the loop once get_city_weather returned: the record is appended
LoopBody(records, city, weather_info) ==
    Append(records, MakeRecord(city, weather_info))

\* the answers the pipeline is run against: every failure, and a body with
\* every field, without the humidity, without the temperatures
Current(keys) ==
    Dict([k \in keys |->
            CASE k = "temp_c" -> Num(25)
              [] k = "temp_f" -> Num(77)
              [] k = "humidity" -> Num(60)
              [] k = "condition" -> Dict([text |-> Str("Sunny")])])

PipelineBodies ==
    {Dict([current |-> Current(CurrentKeys)]),
     Dict([current |-> Current(CurrentKeys \ {"humidity"})]),
     Dict([current |-> Current(CurrentKeys \ {"temp_c", "temp_f"})])}

PipelineResponses ==
    {NetFailure(e) : e \in NetworkFailures}
        \cup {HttpResponse(404, NotJson), HttpResponse(200, NotJson)}
        \cup {HttpResponse(200, b) : b \in PipelineBodies}

(***************************************************************************)
(* weather_panda_data_handler.py                                           *)
(***************************************************************************)
NoTable == [rows |-> <<>>, columns |-> {}, built |-> FALSE]

\* pd.DataFrame(weather_records) keeping only the records with a temperature
convert_to_dataframe_dropna(records) ==
    [rows |-> SelectSeq(records, LAMBDA r : r.temperature_c # None),
     columns |-> IF records = <<>> THEN {} ELSE DOMAIN records[1],
     built |-> TRUE]

\* pd.DataFrame(weather_records): one row per record; no record, no column
convert_to_dataframe(records) ==
    [rows |-> records,
     columns |-> IF records = <<>> THEN {} ELSE DOMAIN records[1],
     built |-> TRUE]

\* df.describe() refuses a DataFrame without columns
inspect_dataframe(table) ==
    IF table.columns = {} THEN Raise("ValueError") ELSE Return(None)

\* a cell of the file: nothing is written for a null, a number is written in
\* decimal, a text as it is
Cell(value) ==
    IF value = None THEN [empty |-> TRUE]
    ELSE IF value.t = "num" THEN [empty |-> FALSE, number |-> value.n]
    ELSE [empty |-> FALSE, text |-> value.s]

\* df.to_csv(output_path, index=False): one line per row, a cell per column
to_csv(table) ==
    [i \in DOMAIN table.rows |->
        [column \in table.columns |->
            IF column = "city" THEN [empty |-> FALSE, text |-> table.rows[i].city]
            ELSE Cell(table.rows[i][column])]]

\* what os.makedirs and df.to_csv can do: the file is written, or one of them
\* raises (IOError is OSError)
IoOutcomes == {"written", "OSError", "PermissionError", "UnicodeEncodeError"}

save_to_csv_io_only(io) ==
    IF io = "written" THEN Return("True")
    ELSE IF IsInstance(io, "IOError") THEN Return("False")
    ELSE Raise(io)

\* the whole body is inside try: except IOError, then except Exception
save_to_csv(io) ==
    IF io = "written" THEN Return("True")
    ELSE IF IsInstance(io, "IOError") THEN Return("False")
    ELSE IF IsInstance(io, "Exception") THEN Return("False")
    ELSE Raise(io)

(***************************************************************************)
(* weather_numpy_analyzer.py                                               *)
(***************************************************************************)
RECURSIVE SumSeq(_)
SumSeq(s) == IF s = <<>> THEN 0 ELSE Head(s) + SumSeq(Tail(s))

SeqMax(s) == CHOOSE x \in {s[i] : i \in DOMAIN s} : \A j \in DOMAIN s : s[j] <= x
SeqMin(s) == CHOOSE x \in {s[i] : i \in DOMAIN s} : \A j \in DOMAIN s : s[j] >= x

\* numpy computes in floating point; the model computes the same quantities
\* exactly: a quotient is the pair of its numerator and its positive
\* denominator, a square root is named by the quotient under the root
Rat(n, d) == [num |-> n, den |-> d]
Whole(n) == Rat(n, 1)
RatEq(a, b) == a.num * b.den = b.num * a.den
RatLe(a, b) == a.num * b.den <= b.num * a.den
Root(r) == [root_of |-> r]

RECURSIVE Insert(_, _)
Insert(x, s) ==
    IF s = <<>> THEN <<x>>
    ELSE IF x <= Head(s) THEN <<x>> \o s
    ELSE <<Head(s)>> \o Insert(x, Tail(s))

RECURSIVE Sort(_)
Sort(s) == IF s = <<>> THEN <<>> ELSE Insert(Head(s), Sort(Tail(s)))

np_mean(x) == Rat(SumSeq(x), Len(x))

\* the middle value of the sorted array, the mean of the two middle ones
np_median(x) ==
    LET s == Sort(x)
        n == Len(x)
    IN  IF n % 2 = 1 THEN Whole(s[(n + 1) \div 2])
        ELSE Rat(s[n \div 2] + s[n \div 2 + 1], 2)

\* np.var with the sample divisor (ddof=1)
np_var_sample(x) ==
    LET n == Len(x)
        sum == SumSeq(x)
    IN  Rat(SumSeq([i \in 1..n |-> (n * x[i] - sum) * (n * x[i] - sum)]),
            IF n > 1 THEN n * n * (n - 1) ELSE 1)

\* mean(abs(x - x.mean()) ** 2), ddof=0: x[i] - mean is (n*x[i] - sum) / n
np_var(x) ==
    LET n == Len(x)
        sum == SumSeq(x)
    IN  Rat(SumSeq([i \in 1..n |-> (n * x[i] - sum) * (n * x[i] - sum)]), n * n * n)

np_std(x) == Root(np_var(x))

\* np.percentile taking the order statistic below the rank
np_percentile_lower(x, q) == Whole(Sort(x)[((Len(x) - 1) * q) \div 100 + 1])

\* method 'linear': the rank is (n-1)*q/100, and the result lies between the
\* order statistics around it, at the fraction of the rank
np_percentile(x, q) ==
    LET s == Sort(x)
        rank == (Len(x) - 1) * q
        below == rank \div 100
        fraction == rank % 100
    IN  IF fraction = 0 THEN Whole(s[below + 1])
        ELSE Rat(100 * s[below + 1] + fraction * (s[below + 2] - s[below + 1]), 100)

calculate_temperature_statistics(temperature_records) ==
    LET temp_values == NonNull(temperature_records, "temperature_c") IN
    IF Len(temp_values) = 0 THEN None
    ELSE [t |-> "stats",
          average |-> np_mean(temp_values),
          median |-> np_median(temp_values),
          max |-> SeqMax(temp_values),
          min |-> SeqMin(temp_values),
          std_dev |-> np_std(temp_values),
          variance |-> np_var(temp_values),
          range |-> SeqMax(temp_values) - SeqMin(temp_values),
          percentile_25 |-> np_percentile(temp_values, 25),
          percentile_75 |-> np_percentile(temp_values, 75)]

\* city_temp_map keeping a null temperature as 0
city_temp_map_null_as_zero(temperature_records) ==
    [city \in {temperature_records[i].city : i \in DOMAIN temperature_records} |->
        LET last == CHOOSE i \in DOMAIN temperature_records :
                        /\ temperature_records[i].city = city
                        /\ \A j \in DOMAIN temperature_records :
                              temperature_records[j].city = city => j <= i
        IN  IF temperature_records[last].temperature_c = None THEN Num(0)
            ELSE temperature_records[last].temperature_c]

\* {record['city']: record['temperature_c'] for record in temperature_records}:
\* of two records of one city the later one stays
city_temp_map(temperature_records) ==
    [city \in {temperature_records[i].city : i \in DOMAIN temperature_records} |->
        LET last == CHOOSE i \in DOMAIN temperature_records :
                        /\ temperature_records[i].city = city
                        /\ \A j \in DOMAIN temperature_records :
                              temperature_records[j].city = city => j <= i
        IN  temperature_records[last].temperature_c]

\* [city for city in cities if city in city_temp_map and
\*  city_temp_map[city] is not None]
with_temperature(map, city_list) ==
    SelectSeq(city_list, LAMBDA city : city \in DOMAIN map /\ map[city] # None)

\* the index of the last occurrence of the maximum
np_argmax_last(x) ==
    CHOOSE i \in DOMAIN x : x[i] = SeqMax(x) /\ \A j \in DOMAIN x : j > i => x[j] < x[i]

\* np.argmax, np.argmin: the index of the first occurrence
np_argmax(x) ==
    CHOOSE i \in DOMAIN x : x[i] = SeqMax(x) /\ \A j \in DOMAIN x : j < i => x[j] < x[i]

np_argmin(x) ==
    CHOOSE i \in DOMAIN x : x[i] = SeqMin(x) /\ \A j \in DOMAIN x : j < i => x[j] > x[i]

\* a quotient a against a root, compared by their squares: a > root
ExceedsRoot(a, root) ==
    a.num > 0 /\ a.num * a.num * root.root_of.den > root.root_of.num * a.den * a.den

\* abs(a) <= root
WithinRoot(a, root) ==
    a.num * a.num * root.root_of.den <= root.root_of.num * a.den * a.den

\* a < -root
BelowMinusRoot(a, root) ==
    a.num < 0 /\ a.num * a.num * root.root_of.den > root.root_of.num * a.den * a.den

\* temp_values - mean_temp
Anomalies(temp_values) ==
    [i \in DOMAIN temp_values |->
        Rat(Len(temp_values) * temp_values[i] - SumSeq(temp_values), Len(temp_values))]

\* a double holds a number of tenths exactly when it is a number of halves
Representable(tenths) == tenths % 5 = 0

\* the temperatures whose three comparisons are between doubles that stand
\* for equal numbers, and were rounded on the way: x - mean is std or -std,
\* and not every temperature is held exactly
Uncertain(temp_values) ==
    LET anomalies == Anomalies(temp_values)
        std == np_std(temp_values)
    IN  {temp_values[i] : i \in
           {i \in DOMAIN temp_values :
              /\ \E j \in DOMAIN temp_values : ~Representable(temp_values[j])
              /\ anomalies[i].num # 0
              /\ WithinRoot(anomalies[i], std)
              /\ ~ExceedsRoot(anomalies[i], std)
              /\ ~BelowMinusRoot(anomalies[i], std)}}

\* what such comparisons can give, which depends on the digits of the
\* temperatures: strict is the outcome of > (for a temperature above the
\* mean) or of < (below it), within the outcome of <=
Roundings(temp_values) ==
    [Uncertain(temp_values) -> [strict : BOOLEAN, within : BOOLEAN]]

\* np.sum of temp_values > mean + std, of abs(temp_values - mean) <= std, of
\* temp_values < mean - std: each compares temp_values - mean with the std,
\* in double precision
temperature_zones(temp_values, rounding) ==
    LET anomalies == Anomalies(temp_values)
        std == np_std(temp_values)
        hot(i) == IF temp_values[i] \in DOMAIN rounding
                  THEN anomalies[i].num > 0 /\ rounding[temp_values[i]].strict
                  ELSE ExceedsRoot(anomalies[i], std)
        moderate(i) == IF temp_values[i] \in DOMAIN rounding
                       THEN rounding[temp_values[i]].within
                       ELSE WithinRoot(anomalies[i], std)
        cold(i) == IF temp_values[i] \in DOMAIN rounding
                   THEN anomalies[i].num < 0 /\ rounding[temp_values[i]].strict
                   ELSE BelowMinusRoot(anomalies[i], std)
    IN  [hot |-> Cardinality({i \in DOMAIN temp_values : hot(i)}),
         moderate |-> Cardinality({i \in DOMAIN temp_values : moderate(i)}),
         cold |-> Cardinality({i \in DOMAIN temp_values : cold(i)})]

\* temp_values: the temperatures of the cities of the argument that have one
pattern_temp_values(temperature_records, city_list) ==
    LET map == city_temp_map(temperature_records)
        city_names == with_temperature(map, city_list)
    IN  [i \in DOMAIN city_names |-> map[city_names[i]].n]

\* patterns is a dict: the function of its keys, empty when no city of the
\* argument has a temperature
identify_temperature_patterns(temperature_records, city_list, rounding) ==
    LET map == city_temp_map(temperature_records)
        city_names == with_temperature(map, city_list)
        temp_values == pattern_temp_values(temperature_records, city_list)
        anomalies == Anomalies(temp_values)
    IN  IF Len(temp_values) > 0
        THEN [hottest_city |-> city_names[np_argmax(temp_values)],
              hottest_temp |-> temp_values[np_argmax(temp_values)],
              coldest_city |-> city_names[np_argmin(temp_values)],
              coldest_temp |-> temp_values[np_argmin(temp_values)],
              temperature_anomalies |->
                  [city \in {city_names[i] : i \in DOMAIN city_names} |->
                      anomalies[CHOOSE i \in DOMAIN city_names :
                                    /\ city_names[i] = city
                                    /\ \A j \in DOMAIN city_names :
                                          city_names[j] = city => j <= i]],
              temperature_zones |-> temperature_zones(temp_values, rounding)]
        ELSE <<>>

RECURSIVE GCD(_, _)
GCD(a, b) == IF b = 0 THEN a ELSE GCD(b, a % b)

Abs(a) == IF a < 0 THEN 0 - a ELSE a

\* the values of d divided by what divides them all (d itself when all are 0)
RECURSIVE LowestTerms(_)
LowestTerms(d) ==
    LET RECURSIVE Common(_)
        Common(k) == IF k = 0 THEN 0 ELSE GCD(Abs(d[k]), Common(k - 1))
        g == Common(Len(d))
    IN  IF g = 0 THEN d ELSE [i \in DOMAIN d |-> d[i] \div g]

\* np.corrcoef(x, y)[0, 1] is cov / sqrt(vx * vy), of the deviations from the
\* means; it does not depend on the scale of a series, and the model takes
\* the deviations n*x[i] - sum in their lowest terms. It keeps the sign and
\* the square of the coefficient, and nan when a variance is 0 (0 / 0)
NaN == [t |-> "nan"]

np_corrcoef(x, y) ==
    LET n == Len(x)
        dx == LowestTerms([i \in 1..n |-> n * x[i] - SumSeq(x)])
        dy == LowestTerms([i \in 1..n |-> n * y[i] - SumSeq(y)])
        cov == SumSeq([i \in 1..n |-> dx[i] * dy[i]])
        vx == SumSeq([i \in 1..n |-> dx[i] * dx[i]])
        vy == SumSeq([i \in 1..n |-> dy[i] * dy[i]])
    IN  IF vx = 0 \/ vy = 0 THEN NaN
        ELSE [t |-> "coefficient",
              sign |-> IF cov > 0 THEN 1 ELSE IF cov < 0 THEN 0 - 1 ELSE 0,
              square |-> Rat(cov * cov, vx * vy)]

\* correlation > halves / 2, for halves in -1, 0, 1
GreaterThan(coefficient, halves) ==
    CASE halves = 1 ->
            coefficient.sign = 1 /\ 4 * coefficient.square.num > coefficient.square.den
      [] halves = 0 -> coefficient.sign = 1
      [] OTHER ->
            coefficient.sign >= 0 \/ 4 * coefficient.square.num < coefficient.square.den

\* the chain with "correlation >= 0" as its third test
correlation_interpretation_zero_positive(coefficient) ==
    IF coefficient = NaN THEN "Insufficient data for correlation"
    ELSE IF GreaterThan(coefficient, 1) THEN "Strong positive correlation"
    ELSE IF coefficient.sign >= 0 THEN "Weak positive correlation"
    ELSE IF GreaterThan(coefficient, 0 - 1) THEN "Weak negative correlation"
    ELSE "Strong negative correlation"

\* if np.isnan(correlation) ... elif > 0.5 ... elif > 0 ... elif > -0.5 ... else
correlation_interpretation(coefficient) ==
    IF coefficient = NaN THEN "Insufficient data for correlation"
    ELSE IF GreaterThan(coefficient, 1) THEN "Strong positive correlation"
    ELSE IF GreaterThan(coefficient, 0) THEN "Weak positive correlation"
    ELSE IF GreaterThan(coefficient, 0 - 1) THEN "Weak negative correlation"
    ELSE "Strong negative correlation"

NoCorrelation == [computed |-> FALSE, pairs |-> <<>>]

\* pairs: the (temperature, humidity) pairs np.corrcoef is given, which
\* refuses two arrays of different lengths
analyze_humidity_correlation(temperature_records) ==
    LET temp_values == NonNull(temperature_records, "temperature_c")
        humidity_values == NonNull(temperature_records, "humidity")
        coefficient == np_corrcoef(temp_values, humidity_values)
    IN  IF Len(temp_values) > 1 /\ Len(humidity_values) > 1
        THEN IF Len(temp_values) # Len(humidity_values)
             THEN Raise("ValueError")
             ELSE Return([computed |-> TRUE,
                          pairs |-> Zip(temp_values, humidity_values),
                          correlation_coefficient |-> coefficient,
                          correlation_interpretation |->
                              correlation_interpretation(coefficient)])
        ELSE Return(NoCorrelation)

(***************************************************************************)
(* weather_matplotlib_graph_generator.py                                   *)
(* Each chart function raises what numpy, pandas or matplotlib raise on    *)
(* the data it passes them, or names the file it saves.                    *)
(***************************************************************************)
ChartTypes ==
    {"weather_dashboard", "temperature_comparison", "humidity_distribution",
     "temp_humidity_scatter", "weather_conditions"}

\* datetime.now().strftime('%Y%m%d_%H%M%S'): the sub-second part is dropped
strftime(now) == now \div TicksPerSecond

ChartFile(type, now) == [type |-> type, timestamp |-> strftime(now)]

\* how a chart function ends, and the labelled points of the figure it saved
\* when it places one point per city (the bars of the bar charts are not
\* kept)
Skipped == [exc |-> "none", value |-> None, saved |-> FALSE, points |-> <<>>]
Saved == [exc |-> "none", value |-> None, saved |-> TRUE, points |-> <<>>]
Failed(e) == [exc |-> e, value |-> None, saved |-> FALSE, points |-> <<>>]
Drawn(points) == [exc |-> "none", value |-> None, saved |-> TRUE, points |-> points]

\* a tick label or an annotation, and the temperature and humidity drawn
\* at its position
Point(city, temperature, humidity) ==
    [city |-> city, temperature |-> temperature, humidity |-> humidity]

RECURSIVE cities_filtered(_)
\* [record['city'] for record in temperature_records
\*  if record['temperature_c'] is not None]
cities_filtered(records) ==
    IF records = <<>> THEN <<>>
    ELSE IF Head(records).temperature_c # None
         THEN <<Head(records).city>> \o cities_filtered(Tail(records))
         ELSE cities_filtered(Tail(records))

\* create_summary_table and generate_insights: df_summary['Humidity (%)']
\* is a KeyError on a table without columns
generate_insights(records) ==
    IF records = <<>> THEN Failed("KeyError") ELSE Skipped

\* ax.plot(x_positions, humidities) refuses two arrays of different lengths;
\* position i has the tick label cities_filtered[i] and the texts of temps[i]
\* and of humidities[i]
generate_simple_dashboard(records) ==
    LET temps == NonNull(records, "temperature_c")
        humidities == NonNull(records, "humidity")
        labels == cities_filtered(records)
    IN  IF Len(temps) = 0 THEN Skipped
        ELSE IF Len(humidities) # Len(temps) THEN Failed("ValueError")
        ELSE Drawn([i \in 1..Len(labels) |-> Point(labels[i], temps[i], humidities[i])])

\* a column holding only None keeps None, and get_temp_color(None) compares
\* None with 30; a column holding a number holds nan for None, and every
\* comparison with nan is false
create_temperature_comparison_chart(records) ==
    IF records = <<>> THEN Failed("KeyError")
    ELSE IF Len(NonNull(records, "temperature_c")) = 0 THEN Failed("TypeError")
    ELSE Saved

\* ax.barh(df_summary['City'], humidity): the cities and the non-null
\* humidities are broadcast to one shape, which fails unless they are as
\* many or one of the two is a single value
create_humidity_distribution_chart(records) ==
    LET humidity == NonNull(records, "humidity") IN
    IF records = <<>> THEN Failed("KeyError")
    ELSE IF Len(humidity) = Len(records) \/ Len(humidity) = 1 \/ Len(records) = 1
    THEN Saved
    ELSE Failed("ValueError")

\* ax.scatter(temps, humidity) refuses two series of different sizes; the
\* point (temps.iloc[i], humidity.iloc[i]) is annotated with the city of row
\* i of the table, for the first len(temps) rows
create_temperature_humidity_scatter(records) ==
    LET temps == NonNull(records, "temperature_c")
        humidity == NonNull(records, "humidity")
    IN  IF records = <<>> THEN Failed("KeyError")
        ELSE IF Len(temps) # Len(humidity) THEN Failed("ValueError")
        ELSE Drawn([i \in 1..Len(temps) |-> Point(records[i].city, temps[i], humidity[i])])

create_weather_conditions_chart(records) ==
    IF records = <<>> THEN Failed("KeyError") ELSE Saved

(***************************************************************************)
(* weather_data_service.py: get_weather_data_for_cities                    *)
(* A file name is the sequence of its parts between dots.                  *)
(***************************************************************************)
OutputFiles == {<<"weather_data", "csv">>, <<"weather_data">>}

\* name, ext = output_file.rsplit('.', 1): one part cannot be unpacked into two
rsplit(file) ==
    IF Len(file) < 2 THEN Raise("ValueError")
    ELSE Return([name |-> SubSeq(file, 1, Len(file) - 1), ext |-> file[Len(file)]])

\* f"{name}_{timestamp}.{ext}"
CsvFile(parts, now) == [name |-> parts.name, timestamp |-> strftime(now), ext |-> parts.ext]

\* writing a file creates it or replaces the file of that name
WriteFile(files, name, writer) ==
    [f \in DOMAIN files \cup {name} |-> IF f = name THEN writer ELSE files[f]]

NoExc == [type |-> "none", at |-> "none"]
Terminal == {"returned", "raised"}

Raised(type, at) ==
    /\ pc' = "raised"
    /\ exc' = [type |-> type, at |-> at]

Zeros(n) == [i \in 1..n |-> 0]

\* no figure was saved yet
NotPlotted == [weather_dashboard |-> <<>>, temp_humidity_scatter |-> <<>>]

(***************************************************************************)
(* main.py: the banners and the outcome messages it logs, in order, and    *)
(* how the script ends.                                                    *)
(***************************************************************************)
\* lines 11-17: the START banner is logged before the try statement
Started == [log |-> <<"START">>, exit |-> "running"]

\* main_try without its except clause
main_try_uncaught(outcome, raised) ==
    IF outcome = "returned" THEN [log |-> <<"SUCCESS">>, escapes |-> FALSE]
    ELSE [log |-> <<>>, escapes |-> TRUE]

\* lines 18-21: the success message follows a call that returned; an
\* exception that is an Exception is caught and logged as the error
main_try(outcome, raised) ==
    IF outcome = "returned" THEN [log |-> <<"SUCCESS">>, escapes |-> FALSE]
    ELSE IF IsInstance(raised, "Exception") THEN [log |-> <<"ERROR">>, escapes |-> FALSE]
    ELSE [log |-> <<>>, escapes |-> TRUE]

\* lines 22-25: the finally clause logs the END banner on every way out
main_finally(tried) ==
    [log |-> tried.log \o <<"END">>,
     exit |-> IF tried.escapes THEN "raised" ELSE "exited"]

\* one iteration of the loop of fetch_weather_data
FetchCity ==
    /\ pc = "fetch_weather_data"
    /\ idx <= Len(cities)
    /\ \E resp \in PipelineResponses :
         LET got == get_city_weather(apiKey, cities[idx], resp) IN
         /\ gets' = [gets EXCEPT ![idx] = @ + got.gets]
         /\ IF got.exc # "none"
            THEN /\ Raised(got.exc, "get_weather_api_url")
                 /\ UNCHANGED <<idx, weather_records>>
            ELSE /\ weather_records' = LoopBody(weather_records, cities[idx], got.value)
                 /\ idx' = idx + 1
                 /\ UNCHANGED <<pc, exc>>
    /\ UNCHANGED <<apiKey, plotted, charts_dir, main, cities, output_file, df, stats, correlation, charts,
                   csv_files, save_result, persisted, clock, run, arg, ret>>

\* fetch_weather_data returns and the table is built
ConvertToDataframe ==
    /\ pc = "fetch_weather_data"
    /\ idx > Len(cities)
    /\ df' = convert_to_dataframe(weather_records)
    /\ pc' = "inspect_dataframe"
    /\ UNCHANGED <<apiKey, plotted, charts_dir, main, cities, output_file, idx, weather_records, gets, stats,
                   correlation, exc, charts, csv_files, save_result, persisted,
                   clock, run, arg, ret>>

InspectDataframe ==
    /\ pc = "inspect_dataframe"
    /\ IF inspect_dataframe(df).exc # "none"
       THEN Raised(inspect_dataframe(df).exc, "inspect_dataframe")
       ELSE pc' = "analyze_weather_data" /\ UNCHANGED exc
    /\ UNCHANGED <<apiKey, plotted, charts_dir, main, cities, output_file, idx, weather_records, gets, df,
                   stats, correlation, charts, csv_files, save_result, persisted,
                   clock, run, arg, ret>>

\* statistics, then the correlation; stats is assigned when the call returns
AnalyzeWeatherData ==
    /\ pc = "analyze_weather_data"
    /\ LET corr == analyze_humidity_correlation(weather_records) IN
       IF corr.exc # "none"
       THEN /\ Raised(corr.exc, "analyze_humidity_correlation")
            /\ UNCHANGED <<stats, correlation>>
       ELSE /\ stats' = calculate_temperature_statistics(weather_records)
            /\ correlation' = corr.value
            /\ pc' = "generate_insights"
            /\ UNCHANGED exc
    /\ UNCHANGED <<apiKey, plotted, charts_dir, main, cities, output_file, idx, weather_records, gets, df,
                   charts, csv_files, save_result, persisted, clock, run, arg, ret>>

\* plt.savefig by this run at this time: the file is created, or the file
\* of that name is written anew. Its st_ctime is kept in whole seconds: two
\* files of one chart type differ in the second of their names
Png(writer, now) == [run |-> writer, ctime |-> now \div TicksPerSecond]

\* one step of generate_graphs: os.makedirs(output_dir, exist_ok=True), then
\* the function at pc renders, and saves its file under the timestamp it
\* reads, or raises
ChartStep(at, done, type, next) ==
    /\ pc = at
    /\ charts_dir' = TRUE
    /\ IF done.exc # "none"
       THEN Raised(done.exc, at) /\ UNCHANGED <<charts, plotted>>
       ELSE /\ pc' = next
            /\ charts' = IF done.saved
                         THEN WriteFile(charts, ChartFile(type, clock), Png(run, clock))
                         ELSE charts
            /\ plotted' = IF done.saved /\ type \in DOMAIN plotted
                          THEN [plotted EXCEPT ![type] = done.points]
                          ELSE plotted
            /\ UNCHANGED exc
    /\ UNCHANGED <<apiKey, main, cities, output_file, idx, weather_records, gets, df,
                   stats, correlation, csv_files, save_result, persisted, clock,
                   run, arg, ret>>

GenerateInsights ==
    ChartStep("generate_insights", generate_insights(weather_records),
              "none", "generate_simple_dashboard")

GenerateSimpleDashboard ==
    ChartStep("generate_simple_dashboard", generate_simple_dashboard(weather_records),
              "weather_dashboard", "create_temperature_comparison_chart")

CreateTemperatureComparisonChart ==
    ChartStep("create_temperature_comparison_chart",
              create_temperature_comparison_chart(weather_records),
              "temperature_comparison", "create_humidity_distribution_chart")

CreateHumidityDistributionChart ==
    ChartStep("create_humidity_distribution_chart",
              create_humidity_distribution_chart(weather_records),
              "humidity_distribution", "create_temperature_humidity_scatter")

CreateTemperatureHumidityScatter ==
    ChartStep("create_temperature_humidity_scatter",
              create_temperature_humidity_scatter(weather_records),
              "temp_humidity_scatter", "create_weather_conditions_chart")

CreateWeatherConditionsChart ==
    ChartStep("create_weather_conditions_chart",
              create_weather_conditions_chart(weather_records),
              "weather_conditions", "save_to_csv")

\* the timestamp is appended to the file name, save_to_csv writes the file or
\* catches the failure of the write, and the table is returned
SaveToCsv ==
    /\ pc = "save_to_csv"
    /\ LET parts == rsplit(output_file) IN
       IF parts.exc # "none"
       THEN /\ Raised(parts.exc, "get_weather_data_for_cities")
            /\ UNCHANGED <<csv_files, save_result, persisted>>
       ELSE \E io \in IoOutcomes :
              LET saved == save_to_csv(io)
                  written == io = "written"
              IN  /\ csv_files' = IF written
                                  THEN WriteFile(csv_files, CsvFile(parts.value, clock),
                                                 [run |-> run, lines |-> to_csv(df)])
                                  ELSE csv_files
                  /\ persisted' = IF written THEN persisted + 1 ELSE persisted
                  /\ IF saved.exc # "none"
                     THEN /\ Raised(saved.exc, "save_to_csv")
                          /\ UNCHANGED save_result
                     ELSE /\ save_result' = saved.value
                          /\ pc' = "returned"
                          /\ UNCHANGED exc
    /\ UNCHANGED <<apiKey, plotted, charts_dir, main, cities, output_file, idx, weather_records, gets, df,
                   stats, correlation, charts, clock, run, arg, ret>>

\* get_weather_data_for_cities has returned or raised: main logs the outcome
\* and the END banner, and the script ends
MainExit ==
    /\ pc \in Terminal
    /\ main.exit = "running"
    /\ LET done == main_finally(main_try(pc, exc.type)) IN
       main' = [log |-> main.log \o done.log, exit |-> done.exit]
    /\ UNCHANGED <<apiKey, plotted, cities, output_file, pc, idx, weather_records, gets, df,
                   stats, correlation, exc, charts_dir, charts, csv_files,
                   save_result, persisted, clock, run, arg, ret>>

\* main.py is run again once it has ended: every structure of the run is
\* built afresh, the files stay
StartRun ==
    /\ pc \in Terminal
    /\ main.exit # "running"
    /\ run < MaxRuns
    /\ run' = run + 1
    /\ pc' = "fetch_weather_data"
    /\ idx' = 1
    /\ weather_records' = <<>>
    /\ gets' = Zeros(Len(cities))
    /\ df' = NoTable
    /\ stats' = None
    /\ correlation' = NoCorrelation
    /\ exc' = NoExc
    /\ save_result' = "not called"
    /\ main' = Started
    /\ plotted' = NotPlotted
    /\ UNCHANGED <<apiKey, cities, output_file, charts_dir, charts, csv_files,
                   persisted, clock, arg, ret>>

\* time passes
Tick ==
    /\ clock < MaxClock
    /\ clock' = clock + 1
    /\ UNCHANGED <<apiKey, plotted, charts_dir, main, cities, output_file, pc, idx, weather_records, gets, df,
                   stats, correlation, exc, charts, csv_files, save_result,
                   persisted, run, arg, ret>>

\* SpecClient: get_city_weather is called once
NotCalled == [exc |-> "none", value |-> None, gets |-> 0, called |-> FALSE]

CallGetCityWeather ==
    /\ ~ret.called
    /\ LET got == get_city_weather(arg.key, arg.city, arg.resp) IN
       ret' = [exc |-> got.exc, value |-> got.value, gets |-> got.gets, called |-> TRUE]
    /\ UNCHANGED <<apiKey, plotted, charts_dir, main, cities, output_file, pc, idx, weather_records, gets, df,
                   stats, correlation, exc, charts, csv_files, save_result,
                   persisted, clock, run, arg>>

NoArg == [key |-> FALSE, city |-> "", resp |-> NetFailure("ReadTimeout")]

\* the state in which get_weather_data_for_cities(cities, output_file) is entered
Entered(cs, file, key) ==
    /\ apiKey = key
    /\ cities = cs
    /\ output_file = file
    /\ pc = "fetch_weather_data"
    /\ idx = 1
    /\ weather_records = <<>>
    /\ gets = Zeros(Len(cs))
    /\ df = NoTable
    /\ stats = None
    /\ correlation = NoCorrelation
    /\ exc = NoExc
    /\ plotted = NotPlotted
    /\ charts_dir = FALSE
    /\ charts = <<>>
    /\ csv_files = <<>>
    /\ save_result = "not called"
    /\ persisted = 0
    /\ clock = 0
    /\ run = 1
    /\ main = Started

Init ==
    /\ \E cs \in CityLists, file \in OutputFiles, key \in BOOLEAN : Entered(cs, file, key)
    /\ arg = NoArg
    /\ ret = NotCalled

Next ==
    \/ FetchCity
    \/ ConvertToDataframe
    \/ InspectDataframe
    \/ AnalyzeWeatherData
    \/ GenerateInsights
    \/ GenerateSimpleDashboard
    \/ CreateTemperatureComparisonChart
    \/ CreateHumidityDistributionChart
    \/ CreateTemperatureHumidityScatter
    \/ CreateWeatherConditionsChart
    \/ SaveToCsv
    \/ MainExit

Spec == Init /\ [][Next]_vars


\* main.py: the cities it names (the first three) and its output file
MainCities == <<"London", "New York", "Tokyo">>

InitRuns ==
    /\ \E key \in BOOLEAN : Entered(MainCities, <<"weather_data", "csv">>, key)
    /\ arg = NoArg
    /\ ret = NotCalled

NextRuns == Next \/ StartRun \/ Tick

\* one run of main.py to its end, with the key set or not, and with its
\* output file or one without extension. The script is one sequential
\* process that runs on until it ends: every statement returns or raises,
\* and requests.get is given a timeout
InitLive ==
    /\ \E file \in OutputFiles, key \in BOOLEAN : Entered(MainCities, file, key)
    /\ arg = NoArg
    /\ ret = NotCalled

SpecLive == InitLive /\ [][Next]_vars /\ WF_vars(Next)

SpecRuns == InitRuns /\ [][NextRuns]_vars

InitClient ==
    /\ Entered(<<>>, <<"weather_data", "csv">>, FALSE)
    /\ arg \in [key : BOOLEAN, city : Names, resp : Responses]
    /\ ret = NotCalled

NextClient == CallGetCityWeather

SpecClient == InitClient /\ [][NextClient]_vars

(***************************************************************************)
(* weather_ui.py: the page and /api/charts name the latest file of each    *)
(* chart type in Output/charts. SpecUi: the server answers requests while  *)
(* main.py is run again and again.                                         *)
(***************************************************************************)
\* the chart types of the page, and the prefix of the file names each
\* pattern 'prefix_*.png' matches
patterns ==
    [dashboard |-> "weather_dashboard",
     temperature_comparison |-> "temperature_comparison",
     humidity_distribution |-> "humidity_distribution",
     temp_humidity_scatter |-> "temp_humidity_scatter",
     weather_conditions |-> "weather_conditions"]

\* glob(os.path.join(charts_dir, pattern))
glob(files, pattern) == {f \in DOMAIN files : f.type = pattern}

\* max(files, key=os.path.getctime)
latest(files, matched) ==
    CHOOSE f \in matched : \A g \in matched : files[g].ctime <= files[f].ctime

\* get_latest_charts with min(files, key=os.path.getctime)
get_latest_charts_oldest(exists, files) ==
    IF ~exists THEN [chart_type \in DOMAIN patterns |-> None]
    ELSE [chart_type \in DOMAIN patterns |->
            LET matched == glob(files, patterns[chart_type]) IN
            IF matched # {}
            THEN Str(CHOOSE f \in matched :
                        \A g \in matched : files[f].ctime <= files[g].ctime)
            ELSE None]

\* None for every chart type when the directory is missing; else, for each
\* type with files, the basename of the one created last
get_latest_charts(exists, files) ==
    IF ~exists THEN [chart_type \in DOMAIN patterns |-> None]
    ELSE [chart_type \in DOMAIN patterns |->
            LET matched == glob(files, patterns[chart_type]) IN
            IF matched # {} THEN Str(latest(files, matched)) ELSE None]

\* f"/charts/{filename}" for a file name, which is a true value since no
\* file name is empty; None stays None
api_charts(latest_charts) ==
    [chart_type \in DOMAIN latest_charts |->
        IF latest_charts[chart_type] # None
        THEN Str(<<"/charts", latest_charts[chart_type].s>>)
        ELSE None]

\* GET /api/charts is answered
ApiCharts ==
    /\ LET latest_charts == get_latest_charts(charts_dir, charts) IN
       ret' = [called |-> TRUE, charts |-> latest_charts,
               chart_urls |-> api_charts(latest_charts)]
    /\ UNCHANGED <<apiKey, plotted, cities, output_file, pc, idx, weather_records, gets, df,
                   stats, correlation, exc, charts_dir, charts, csv_files,
                   save_result, persisted, clock, run, main, arg>>

\* the runs are those of a caller that names its output file without an
\* extension: the charts are rendered before the file name is taken apart,
\* and no CSV file is written
InitUi ==
    /\ Entered(MainCities, <<"weather_data">>, TRUE)
    /\ arg = NoArg
    /\ ret = NotCalled

NextUi == NextRuns \/ ApiCharts

SpecUi == InitUi /\ [][NextUi]_vars

(***************************************************************************)
(* SpecAnalysis: analyze_weather_data on the records fetch_weather_data    *)
(* builds from what was fetched. The payloads are those of cities with     *)
(* temperatures only, with temperatures and humidities, and of named       *)
(* cities against every list of cities to analyse.                         *)
(***************************************************************************)
MaxRecords == 3

Optional(values) == {None} \cup {Num(v) : v \in values}

\* the payload get_city_weather returns for these readings
Info(temp_c, temp_f, humidity) ==
    [temperature |-> temp_c, temperature_f |-> temp_f, humidity |-> humidity,
     condition |-> Str("Sunny")]

SeqsUpTo(S, n) == UNION {[1..k -> S] : k \in 0..n}

StatsTemps == {Deg(0), Deg(10), Deg(20), Deg(30)}
CorrTemps == {Deg(10), Deg(20), Deg(30)}
CorrHumidities == {70, 80, 90}
\* 15.2 and 22.1 degrees are no binary fractions
PatternTemps == {Deg(0), Deg(10), Deg(30), 152, 221}
AnalysisCities == <<"A", "B", "C">>

\* a payload has both of temperature_f and humidity, or neither
StatsFetched ==
    SeqsUpTo({[city |-> "A", info |-> Info(tc, rest[1], rest[2])] :
                 tc \in Optional(StatsTemps),
                 rest \in {<<None, None>>, <<Num(Deg(32)), Num(70)>>}}, MaxRecords)

CorrFetched ==
    SeqsUpTo({[city |-> "A", info |-> Info(tc, None, h)] :
                 tc \in Optional(CorrTemps), h \in Optional(CorrHumidities)}, MaxRecords)

\* each named city fetched once or not at all, in the order of the names
DistinctFetched ==
    {[i \in DOMAIN SelectSeq(AnalysisCities, LAMBDA c : c \in DOMAIN f) |->
         LET c == SelectSeq(AnalysisCities, LAMBDA d : d \in DOMAIN f)[i]
         IN  [city |-> c, info |-> Info(f[c], None, None)]] :
       f \in UNION {[present -> Optional(PatternTemps)] :
                       present \in SUBSET {AnalysisCities[i] : i \in DOMAIN AnalysisCities}}}

\* one city named twice in the list that was fetched
TwiceFetched ==
    {<<[city |-> "A", info |-> Info(first, None, None)],
       [city |-> "A", info |-> Info(second, None, None)]>> :
       first \in Optional(PatternTemps), second \in Optional(PatternTemps)}

CitiesOf(fetched) == [i \in DOMAIN fetched |-> fetched[i].city]

AnalysisArgs ==
    {[fetched |-> f, city_list |-> CitiesOf(f)] : f \in StatsFetched \cup CorrFetched}
      \cup [fetched : DistinctFetched \cup TwiceFetched,
            city_list : SeqsUpTo({AnalysisCities[i] : i \in DOMAIN AnalysisCities},
                                 MaxCities)]

RECURSIVE FetchedRecords(_)
\* the loop of fetch_weather_data over what was fetched
FetchedRecords(fetched) ==
    IF fetched = <<>> THEN <<>>
    ELSE LoopBody(FetchedRecords(SubSeq(fetched, 1, Len(fetched) - 1)),
                  fetched[Len(fetched)].city, fetched[Len(fetched)].info)

\* the three analyses of analyze_weather_data, on the records of the payloads
CallAnalyzeWeatherData ==
    /\ ~ret.called
    /\ LET records == FetchedRecords(arg.fetched) IN
       \E rounding \in Roundings(pattern_temp_values(records, arg.city_list)) :
          ret' = [called |-> TRUE,
                  records |-> records,
                  stats |-> calculate_temperature_statistics(records),
                  patterns |-> identify_temperature_patterns(records, arg.city_list,
                                                            rounding),
                  correlation |-> analyze_humidity_correlation(records)]
    /\ UNCHANGED <<apiKey, plotted, charts_dir, main, cities, output_file, pc, idx, weather_records, gets, df,
                   stats, correlation, exc, charts, csv_files, save_result,
                   persisted, clock, run, arg>>

InitAnalysis ==
    /\ Entered(<<>>, <<"weather_data", "csv">>, FALSE)
    /\ arg \in AnalysisArgs
    /\ ret = NotCalled

NextAnalysis == CallAnalyzeWeatherData

SpecAnalysis == InitAnalysis /\ [][NextAnalysis]_vars

(***************************************************************************)
(* Properties                                                              *)
(***************************************************************************)
Nonempty(cs) == {i \in 1..Len(cs) : cs[i] # ""}

FirstNonempty(cs) == CHOOSE i \in Nonempty(cs) : \A j \in Nonempty(cs) : i <= j

\* a record of a city whose fetch degraded, and of a city whose fetch succeeded
Degraded(record) ==
    /\ record.temperature_c = None
    /\ record.humidity = None
    /\ record.condition \in {Str("Unknown"), Str("Unavailable")}

Succeeded(record) ==
    /\ record.temperature_c # None
    /\ record.temperature_f # None
    /\ record.humidity # None

HasExtension(file) == Len(file) >= 2

ChartFunctions ==
    {"generate_insights", "generate_simple_dashboard",
     "create_temperature_comparison_chart", "create_humidity_distribution_chart",
     "create_temperature_humidity_scatter", "create_weather_conditions_chart"}

\* analyze_weather_data has returned in this run
Analyzed ==
    \/ pc \in ChartFunctions \cup {"save_to_csv", "returned"}
    \/ pc = "raised" /\ exc.at \in ChartFunctions \cup {"get_weather_data_for_cities"}

ChartsOfRun(r) == {f \in DOMAIN charts : charts[f].run = r}

\* C1: once fetch_weather_data has returned there is exactly one record per
\* city of the input, in input order, whatever each fetch did; while it runs
\* the records are those of the cities fetched so far
C1_OneRecordPerCityInOrder ==
    /\ Len(weather_records) <= Len(cities)
    /\ \A i \in 1..Len(weather_records) : weather_records[i].city = cities[i]
    /\ pc = "fetch_weather_data" => Len(weather_records) = idx - 1
    /\ df.built => Len(weather_records) = Len(cities)

C1_Witness ==
    /\ df.built
    /\ Len(cities) = 3
    /\ cities[1] = "" /\ cities[2] # cities[3]
    /\ weather_records[2].condition = Str("Unavailable")
    /\ Succeeded(weather_records[3])

\* C2: with the key configured, a run in which some city degraded and every
\* other city succeeded ends by returning the table, after save_to_csv was
\* called, and not by raising
C2_DegradedRunCompletes ==
    ( /\ apiKey
      /\ HasExtension(output_file)
      /\ pc \in Terminal
      /\ \E i \in 1..Len(weather_records) : Degraded(weather_records[i])
      /\ \E i \in 1..Len(weather_records) : Succeeded(weather_records[i])
      /\ \A i \in 1..Len(weather_records) :
            Degraded(weather_records[i]) \/ Succeeded(weather_records[i]) )
    => ( /\ pc = "returned"
         /\ df.built
         /\ save_result # "not called" )

\* C3: without the key and with a non-empty city in the list, no GET is ever
\* issued, no table, chart or CSV file is made, the run cannot pass the first
\* non-empty city, and it ends raising the ValueError of get_weather_api_url
C3_MissingKeyHaltsBeforeFetch ==
    (~apiKey /\ Nonempty(cities) # {})
    => ( /\ \A i \in 1..Len(cities) : gets[i] = 0
         /\ ~df.built
         /\ DOMAIN charts = {}
         /\ DOMAIN csv_files = {}
         /\ save_result = "not called"
         /\ pc \in {"fetch_weather_data", "raised"}
         /\ idx <= FirstNonempty(cities)
         /\ pc = "raised" =>
               /\ exc = [type |-> "ValueError", at |-> "get_weather_api_url"]
               /\ idx = FirstNonempty(cities)
               /\ Len(weather_records) = idx - 1 )

C3_Witness ==
    /\ ~apiKey
    /\ pc = "raised"
    /\ Len(cities) = 3
    /\ cities[1] = ""
    /\ idx = 2

\* the failures of a fetch, read off the answer of the endpoint
IsTimeout(resp) == resp.net \in {"ConnectTimeout", "ReadTimeout"}
IsNetworkError(resp) == resp.net = "ConnectionError"
IsHttpError(resp) == resp.net = "none" /\ resp.status >= 400
IsMalformedJson(resp) == resp.net = "none" /\ resp.status < 400 /\ resp.body = NotJson

\* C4: with the URL built, a timeout returns the all-null payload with
\* condition "Unavailable", and an HTTP error status, a network error and a
\* malformed body return it with condition "Unknown"; nothing is raised
C4_FetchFailureDegrades ==
    (ret.called /\ arg.key /\ arg.city # "")
    => ( /\ IsTimeout(arg.resp) =>
               ret.exc = "none" /\ ret.value = Sentinel("Unavailable")
         /\ (IsHttpError(arg.resp) \/ IsNetworkError(arg.resp) \/ IsMalformedJson(arg.resp)) =>
               ret.exc = "none" /\ ret.value = Sentinel("Unknown") )

C4_Witness ==
    /\ ret.called
    /\ arg.key /\ arg.city # ""
    /\ arg.resp = NetFailure("ConnectTimeout")
    /\ ret.value = Sentinel("Unavailable")

\* C5: for an empty city name get_city_weather issues no GET and returns the
\* all-null payload with condition "Unknown", with or without the key
C5_EmptyCityNoCall ==
    (ret.called /\ arg.city = "")
    => ( /\ ret.exc = "none"
         /\ ret.gets = 0
         /\ ret.value = Sentinel("Unknown") )

C5_Witness ==
    /\ ret.called
    /\ arg.city = ""
    /\ ~arg.key

\* C6: at most one GET is issued for each entry of the city list, none for an
\* empty name and none for an entry not reached yet, so the GETs of a run
\* never outnumber the non-empty cities
C6_AtMostOneGetPerEntry ==
    /\ \A i \in 1..Len(cities) :
         /\ gets[i] <= 1
         /\ cities[i] = "" => gets[i] = 0
         /\ i > idx => gets[i] = 0
    /\ SumSeq(gets) <= Cardinality(Nonempty(cities))

C6_Witness ==
    /\ pc = "returned"
    /\ Len(cities) = 3
    /\ cities[1] = cities[2] /\ cities[1] # ""
    /\ weather_records[1].condition = Str("Unavailable")
    /\ gets = <<1, 1, 1>>

\* the field the claim expects for a key of "current"
FieldOf(body, key) ==
    LET current == DictGet(body, "current", EmptyDict) IN
    IF IsDict(current) THEN DictGet(current, key, None) ELSE None

\* the condition the claim expects: the text when it is there, else "Unknown"
TextOf(body) ==
    LET condition == FieldOf(body, "condition") IN
    IF IsDict(condition) THEN DictGet(condition, "text", Str("Unknown"))
    ELSE Str("Unknown")

\* C7: for a 200 response whose body is a JSON object, each of the four
\* fields is extracted on its own: a field that is there keeps its value, a
\* missing number is null and a missing condition text is "Unknown"
C7_FieldsExtractedIndependently ==
    ( /\ ret.called /\ arg.key /\ arg.city # ""
      /\ arg.resp.net = "none" /\ arg.resp.status = 200
      /\ arg.resp.body # NotJson
      /\ IsDict(arg.resp.body) )
    => ( /\ ret.exc = "none"
         /\ ret.value = [temperature |-> FieldOf(arg.resp.body, "temp_c"),
                         temperature_f |-> FieldOf(arg.resp.body, "temp_f"),
                         humidity |-> FieldOf(arg.resp.body, "humidity"),
                         condition |-> TextOf(arg.resp.body)] )

\* C8: a run whose records all have a null temperature ends by returning,
\* with no statistics summary, no dashboard file and save_to_csv called
C8_AllNullRunCompletes ==
    ( /\ pc \in Terminal
      /\ df.built
      /\ HasExtension(output_file)
      /\ weather_records # <<>>
      /\ \A i \in 1..Len(weather_records) : weather_records[i].temperature_c = None )
    => ( /\ pc = "returned"
         /\ stats = None
         /\ \A f \in ChartsOfRun(run) : f.type # "weather_dashboard"
         /\ save_result # "not called" )

RECURSIVE SameRecordPairs(_)
\* the (temperature, humidity) pairs of the records that have both
SameRecordPairs(records) ==
    IF records = <<>> THEN <<>>
    ELSE IF Head(records).temperature_c # None /\ Head(records).humidity # None
         THEN <<<<Head(records).temperature_c.n, Head(records).humidity.n>>>>
                  \o SameRecordPairs(Tail(records))
         ELSE SameRecordPairs(Tail(records))

\* C9: analyze_humidity_correlation never raises, and what it correlates are
\* the pairs of the records that have both values: with fewer than two such
\* records there is no result
C9_CorrelationPairsSameRecord ==
    /\ exc.at # "analyze_humidity_correlation"
    /\ Analyzed =>
         IF Len(SameRecordPairs(weather_records)) >= 2
         THEN correlation.computed /\ correlation.pairs = SameRecordPairs(weather_records)
         ELSE correlation = NoCorrelation

\* C10: every run that persisted has its own CSV file: there are as many CSV
\* files as runs in which save_to_csv wrote one
C10_CsvFilePerPersistedRun == Cardinality(DOMAIN csv_files) = persisted

\* C11: save_to_csv raises nothing: it answers True when the file of the run
\* was written and False when it was not, and after False the driver has
\* returned the table it built, without an exception
C11_SaveToCsvNeverRaises ==
    /\ exc.at # "save_to_csv"
    /\ pc = "returned" => save_result \in {"True", "False"}
    /\ save_result = "True" => \E f \in DOMAIN csv_files : csv_files[f].run = run
    /\ save_result = "False" =>
          /\ pc = "returned"
          /\ exc = NoExc
          /\ df = convert_to_dataframe(weather_records)
          /\ \A f \in DOMAIN csv_files : csv_files[f].run # run

C11_Witness == save_result = "False" /\ pc = "returned" /\ Len(df.rows) > 0

(***************************************************************************)
(* Properties of the analyses, stated on what was fetched                  *)
(***************************************************************************)
\* the non-null readings of a field of the payloads, in the order fetched
RECURSIVE Readings(_, _)
Readings(fetched, field) ==
    IF fetched = <<>> THEN <<>>
    ELSE IF Head(fetched).info[field] = None THEN Readings(Tail(fetched), field)
    ELSE <<Head(fetched).info[field].n>> \o Readings(Tail(fetched), field)

Temperatures == Readings(arg.fetched, "temperature")

SumOf(x) == SumSeq(x)
SumOfSquares(x) == SumSeq([i \in DOMAIN x |-> x[i] * x[i]])

\* the k-th smallest value of x
OrderStatistic(x, k) ==
    CHOOSE v \in {x[i] : i \in DOMAIN x} :
        /\ Cardinality({i \in DOMAIN x : x[i] < v}) < k
        /\ k <= Cardinality({i \in DOMAIN x : x[i] <= v})

MedianOf(x) ==
    IF Len(x) % 2 = 1 THEN Whole(OrderStatistic(x, (Len(x) + 1) \div 2))
    ELSE Rat(OrderStatistic(x, Len(x) \div 2) + OrderStatistic(x, Len(x) \div 2 + 1), 2)

\* the records of the payloads that have a temperature
WithTemperature(records) == SelectSeq(records, LAMBDA r : r.temperature_c # None)

\* C12: the summary is absent exactly when no payload has a temperature;
\* otherwise it is the summary of the records that have one: its average is
\* their sum over their number, its extremes are theirs
C12_SummaryOverNonNullOnly ==
    ret.called =>
        /\ ret.stats = None <=> Temperatures = <<>>
        /\ ret.stats # None =>
              /\ ret.stats = calculate_temperature_statistics(WithTemperature(ret.records))
              /\ RatEq(ret.stats.average, Rat(SumOf(Temperatures), Len(Temperatures)))
              /\ ret.stats.max = OrderStatistic(Temperatures, Len(Temperatures))
              /\ ret.stats.min = OrderStatistic(Temperatures, 1)

C12_Witness ==
    /\ ret.called
    /\ ret.stats # None
    /\ Len(Temperatures) < Len(arg.fetched)

\* the field of a record corresponding to a field of the payload
RecordField(field) == IF field = "temperature" THEN "temperature_c" ELSE field

\* the temperature the analysis holds for a city: that of its last fetch
Reading(city) ==
    LET last == CHOOSE i \in DOMAIN arg.fetched :
                    /\ arg.fetched[i].city = city
                    /\ \A j \in DOMAIN arg.fetched : arg.fetched[j].city = city => j <= i
    IN  arg.fetched[last].info.temperature

Fetched(city) == \E i \in DOMAIN arg.fetched : arg.fetched[i].city = city

\* C13: a field of a record is the field of the payload, null exactly when
\* that one is null, and a temperature of 0 is a value like any other: it is
\* in the summary's average and minimum, it gives its city an anomaly, and
\* it is paired by the correlation
C13_NullIsNotZero ==
    ret.called =>
        /\ Len(ret.records) = Len(arg.fetched)
        /\ \A i \in DOMAIN arg.fetched :
             \A field \in {"temperature", "temperature_f", "humidity"} :
                /\ ret.records[i][RecordField(field)] = arg.fetched[i].info[field]
                /\ ret.records[i][RecordField(field)] = None
                      <=> arg.fetched[i].info[field] = None
                /\ ret.records[i][RecordField(field)] = Num(0)
                      <=> arg.fetched[i].info[field] = Num(0)
        /\ Temperatures # <<>> =>
              /\ ret.stats # None
              /\ RatEq(ret.stats.average, Rat(SumOf(Temperatures), Len(Temperatures)))
              /\ ret.stats.min = OrderStatistic(Temperatures, 1)
        /\ \A i \in DOMAIN arg.city_list :
              Fetched(arg.city_list[i]) /\ Reading(arg.city_list[i]) = Num(0) =>
                 /\ DOMAIN ret.patterns # {}
                 /\ arg.city_list[i] \in DOMAIN ret.patterns.temperature_anomalies
                 /\ ret.patterns.coldest_temp <= 0
        /\ ret.correlation.exc = "none" /\ ret.correlation.value.computed =>
              /\ Len(ret.correlation.value.pairs) = Len(Temperatures)
              /\ \A i \in DOMAIN Temperatures :
                    ret.correlation.value.pairs[i][1] = Temperatures[i]

C13_Witness ==
    /\ ret.called
    /\ \E i, j \in DOMAIN arg.fetched :
          /\ arg.fetched[i].info.temperature = Num(0)
          /\ arg.fetched[j].info.temperature = None
    /\ ret.stats # None
    /\ ret.stats.min = 0

\* C14: the summary of n temperatures has average sum/n, the median of the
\* order statistics, the extremes and their difference, the population
\* variance (sum of squares)/n - (sum/n)^2 and its root; [10, 20, 30] gives
\* 20, 20, 10, 30, 20, 200/3 and a std_dev within 0.001 of 8.165
C14_SummaryFormulas ==
    ret.called /\ Temperatures # <<>> =>
        LET x == Temperatures
            n == Len(Temperatures)
            variance == ret.stats.std_dev.root_of
        IN  /\ RatEq(ret.stats.average, Rat(SumOf(x), n))
            /\ RatEq(ret.stats.median, MedianOf(x))
            /\ ret.stats.max = OrderStatistic(x, n)
            /\ ret.stats.min = OrderStatistic(x, 1)
            /\ ret.stats.range = ret.stats.max - ret.stats.min
            /\ RatEq(ret.stats.variance,
                     Rat(n * SumOfSquares(x) - SumOf(x) * SumOf(x), n * n))
            /\ ret.stats.std_dev = Root(ret.stats.variance)
            \* in tenths: the variance is 100 * 200/3, and 100 * std_dev is
            \* between 8164 and 8166
            /\ x = <<Deg(10), Deg(20), Deg(30)>> =>
                  /\ RatEq(ret.stats.average, Whole(Deg(20)))
                  /\ RatEq(ret.stats.median, Whole(Deg(20)))
                  /\ ret.stats.min = Deg(10)
                  /\ ret.stats.max = Deg(30)
                  /\ ret.stats.range = Deg(20)
                  /\ RatEq(ret.stats.variance, Rat(Deg(Deg(200)), 3))
                  /\ 8164 * 8164 * variance.den <= variance.num * 100 * 100
                  /\ variance.num * 100 * 100 <= 8166 * 8166 * variance.den

C14_Witness ==
    ret.called /\ Temperatures = <<Deg(10), Deg(20), Deg(30)>> /\ ret.stats # None

\* C20: a percentile is the interpolation between the order statistics
\* around the rank (n-1)*q; of one value both percentiles are that value; and
\* min <= percentile_25 <= median <= percentile_75 <= max
Interpolated(x, q) ==
    LET rank == (Len(x) - 1) * q
        below == OrderStatistic(x, rank \div 100 + 1)
        above == OrderStatistic(x, IF rank % 100 = 0 THEN rank \div 100 + 1
                                   ELSE rank \div 100 + 2)
    IN  Rat(100 * below + (rank % 100) * (above - below), 100)

C20_PercentilesInterpolate ==
    ret.called /\ Temperatures # <<>> =>
        /\ RatEq(ret.stats.percentile_25, Interpolated(Temperatures, 25))
        /\ RatEq(ret.stats.percentile_75, Interpolated(Temperatures, 75))
        /\ Len(Temperatures) = 1 =>
              /\ RatEq(ret.stats.percentile_25, Whole(Temperatures[1]))
              /\ RatEq(ret.stats.percentile_75, Whole(Temperatures[1]))
        /\ RatLe(Whole(ret.stats.min), ret.stats.percentile_25)
        /\ RatLe(ret.stats.percentile_25, ret.stats.median)
        /\ RatLe(ret.stats.median, ret.stats.percentile_75)
        /\ RatLe(ret.stats.percentile_75, Whole(ret.stats.max))
        /\ Temperatures = <<Deg(10), Deg(20), Deg(30)>> =>
              /\ RatEq(ret.stats.percentile_25, Whole(Deg(15)))
              /\ RatEq(ret.stats.percentile_75, Whole(Deg(25)))

C20_Witness ==
    /\ ret.called
    /\ Len(Temperatures) = 2
    /\ ret.stats.min < ret.stats.max
    /\ ~RatEq(ret.stats.percentile_25, Whole(ret.stats.min))
    /\ ~RatEq(ret.stats.percentile_25, ret.stats.median)

\* the entries of the cities argument whose city was fetched with a temperature
Qualifying ==
    {i \in DOMAIN arg.city_list :
        Fetched(arg.city_list[i]) /\ Reading(arg.city_list[i]) # None}

TemperatureAt(i) == Reading(arg.city_list[i]).n

\* C15: the hottest city is the first entry of the cities argument that has
\* the highest temperature, the coldest the first that has the lowest; of
\* A:10, B:30, C:30 in the order A, B, C they are B and A
C15_FirstOfTiedCities ==
    ret.called /\ Qualifying # {} =>
        LET hottest == CHOOSE i \in Qualifying :
                          /\ \A j \in Qualifying : TemperatureAt(j) <= TemperatureAt(i)
                          /\ \A j \in Qualifying :
                                TemperatureAt(j) = TemperatureAt(i) => i <= j
            coldest == CHOOSE i \in Qualifying :
                          /\ \A j \in Qualifying : TemperatureAt(j) >= TemperatureAt(i)
                          /\ \A j \in Qualifying :
                                TemperatureAt(j) = TemperatureAt(i) => i <= j
        IN  /\ ret.patterns.hottest_city = arg.city_list[hottest]
            /\ ret.patterns.hottest_temp = TemperatureAt(hottest)
            /\ ret.patterns.coldest_city = arg.city_list[coldest]
            /\ ret.patterns.coldest_temp = TemperatureAt(coldest)
            /\ (/\ arg.city_list = <<"A", "B", "C">>
                /\ Fetched("A") /\ Fetched("B") /\ Fetched("C")
                /\ Reading("A") = Num(Deg(10)) /\ Reading("B") = Num(Deg(30))
                /\ Reading("C") = Num(Deg(30)))
               => ret.patterns.hottest_city = "B" /\ ret.patterns.coldest_city = "A"

C15_Witness ==
    /\ ret.called
    /\ arg.city_list = <<"A", "B", "C">>
    /\ Len(arg.fetched) = 3
    /\ Reading("A") = Num(Deg(10))
    /\ Reading("B") = Num(Deg(30))
    /\ Reading("C") = Num(Deg(30))
    /\ ret.patterns.hottest_city = "B"

\* a city of the cities argument, a city fetched with a temperature
Listed(city) == \E i \in DOMAIN arg.city_list : arg.city_list[i] = city

HasTemperature(city) ==
    \E i \in DOMAIN arg.fetched :
        arg.fetched[i].city = city /\ arg.fetched[i].info.temperature # None

NoCityTwice ==
    \A i, j \in DOMAIN arg.fetched : arg.fetched[i].city = arg.fetched[j].city => i = j

ZoneTotal(zones) == zones.hot + zones.moderate + zones.cold

\* C16: only a city that is listed and was fetched with a temperature is the
\* hottest or the coldest, has an anomaly, or is counted in a zone (no zone
\* counts more than the entries of such cities); when there is none the
\* patterns have no field; and when no city was fetched twice, every such
\* city has its anomaly
C16_PatternsOverCitiesWithTemperature ==
    ret.called =>
        LET Counts(city) == Listed(city) /\ HasTemperature(city)
            all == {arg.city_list[i] : i \in DOMAIN arg.city_list}
            entries == {i \in DOMAIN arg.city_list : Counts(arg.city_list[i])}
        IN  /\ (\A city \in all : ~Counts(city)) => DOMAIN ret.patterns = {}
            /\ DOMAIN ret.patterns # {} =>
                  /\ Counts(ret.patterns.hottest_city)
                  /\ Counts(ret.patterns.coldest_city)
                  /\ \A city \in DOMAIN ret.patterns.temperature_anomalies : Counts(city)
                  /\ ret.patterns.temperature_zones.hot <= Cardinality(entries)
                  /\ ret.patterns.temperature_zones.moderate <= Cardinality(entries)
                  /\ ret.patterns.temperature_zones.cold <= Cardinality(entries)
            /\ NoCityTwice =>
                  /\ DOMAIN ret.patterns # {} <=> \E city \in all : Counts(city)
                  /\ DOMAIN ret.patterns # {} =>
                        DOMAIN ret.patterns.temperature_anomalies
                           = {city \in all : Counts(city)}

C16_Witness ==
    /\ ret.called
    /\ DOMAIN ret.patterns # {}
    /\ \E i, j \in DOMAIN arg.city_list :
          /\ ~Fetched(arg.city_list[i])
          /\ Fetched(arg.city_list[j]) /\ Reading(arg.city_list[j]) = None

\* C17: every entry with a temperature is counted in one zone: hot when above
\* the mean by more than the std, cold when below it by more than the std,
\* moderate otherwise, so that a temperature one std from the mean is
\* moderate and the three counts add up to the number of entries
C17_ZonesPartition ==
    ret.called /\ Qualifying # {} =>
        LET n == Cardinality(Qualifying)
            x == [i \in Qualifying |-> TemperatureAt(i)]
            sum == SumSeq([k \in 1..Len(arg.city_list) |->
                             IF k \in Qualifying THEN x[k] ELSE 0])
            squares == SumSeq([k \in 1..Len(arg.city_list) |->
                                 IF k \in Qualifying THEN x[k] * x[k] ELSE 0])
            \* n * (x - mean), and n^2 * variance
            deviation(i) == n * x[i] - sum
            spread == n * squares - sum * sum
            Hot(i) == deviation(i) > 0 /\ deviation(i) * deviation(i) > spread
            Cold(i) == deviation(i) < 0 /\ deviation(i) * deviation(i) > spread
            zones == ret.patterns.temperature_zones
        IN  /\ zones.hot = Cardinality({i \in Qualifying : Hot(i)})
            /\ zones.cold = Cardinality({i \in Qualifying : Cold(i)})
            /\ zones.moderate = Cardinality({i \in Qualifying : ~Hot(i) /\ ~Cold(i)})
            /\ ZoneTotal(zones) = n
            /\ (\A i \in Qualifying : deviation(i) * deviation(i) = spread) =>
                  zones.moderate = n

\* C18: a computed coefficient r has one label: strong positive iff r > 0.5,
\* weak positive iff 0 < r <= 0.5, weak negative iff -0.5 < r <= 0, strong
\* negative iff r <= -0.5, insufficient data iff r is nan, which is when one
\* of the series is constant; [10, 20, 30] against [90, 80, 70] is strong
\* negative
C18_OneLabelPerCoefficient ==
    ret.called /\ ret.correlation.exc = "none" /\ ret.correlation.value.computed =>
        LET r == ret.correlation.value.correlation_coefficient
            label == ret.correlation.value.correlation_interpretation
            pairs == ret.correlation.value.pairs
            \* 4 * r^2 against 1
            Above == 4 * r.square.num > r.square.den
            Exactly == 4 * r.square.num = r.square.den
            Constant(k) == \A i, j \in DOMAIN pairs : pairs[i][k] = pairs[j][k]
        IN  /\ r = NaN <=> Constant(1) \/ Constant(2)
            /\ label = "Insufficient data for correlation" <=> r = NaN
            /\ r # NaN =>
                  /\ label = "Strong positive correlation" <=> r.sign = 1 /\ Above
                  /\ label = "Weak positive correlation" <=> r.sign = 1 /\ ~Above
                  /\ label = "Weak negative correlation"
                        <=> r.sign = 0 \/ (r.sign < 0 /\ ~Above /\ ~Exactly)
                  /\ label = "Strong negative correlation"
                        <=> r.sign < 0 /\ (Above \/ Exactly)
            /\ pairs = <<<<Deg(10), 90>>, <<Deg(20), 80>>, <<Deg(30), 70>>>> =>
                  /\ r.sign < 0 /\ r.square.num = r.square.den
                  /\ label = "Strong negative correlation"

C18_Witness ==
    /\ ret.called
    /\ ret.correlation.exc = "none"
    /\ ret.correlation.value.computed
    /\ ret.correlation.value.pairs = <<<<Deg(10), 90>>, <<Deg(20), 80>>, <<Deg(30), 70>>>>
    /\ ret.correlation.value.correlation_interpretation = "Strong negative correlation"

\* C19: the table has one row per record, in the order of the records; once
\* it is built, no step changes the records or the table; and the lines of
\* the CSV file of the run are the records, cell by cell
C19_TableIsTheRecords ==
    /\ [](df.built => /\ Len(df.rows) = Len(weather_records)
                      /\ \A i \in DOMAIN weather_records : df.rows[i] = weather_records[i])
    /\ [][df.built => df' = df /\ weather_records' = weather_records]_vars
    /\ [](\A f \in DOMAIN csv_files :
             csv_files[f].run = run =>
                /\ Len(csv_files[f].lines) = Len(weather_records)
                /\ \A i \in DOMAIN weather_records :
                      /\ csv_files[f].lines[i].city.text = weather_records[i].city
                      /\ \A column \in {"temperature_c", "temperature_f", "humidity"} :
                            /\ csv_files[f].lines[i][column].empty
                                  <=> weather_records[i][column] = None
                            /\ ~csv_files[f].lines[i][column].empty =>
                                  Num(csv_files[f].lines[i][column].number)
                                     = weather_records[i][column]
                      /\ ~csv_files[f].lines[i].condition.empty =>
                            Str(csv_files[f].lines[i].condition.text)
                               = weather_records[i].condition)

C19_Witness ==
    /\ pc = "returned"
    /\ save_result = "True"
    /\ Len(weather_records) = 3
    /\ \E i, j \in DOMAIN weather_records :
          weather_records[i].temperature_c = None /\ weather_records[j].temperature_c # None
    /\ \E f \in DOMAIN csv_files : Len(csv_files[f].lines) = 3

\* the files of a chart type of the page in Output/charts
FilesOfType(chart_type) == {f \in DOMAIN charts : f.type = patterns[chart_type]}

\* the file was written after every other file of its chart type: no other
\* has a later creation time, none was written by a later run
WrittenLast(f, chart_type) ==
    \A g \in FilesOfType(chart_type) :
        /\ charts[g].ctime <= charts[f].ctime
        /\ charts[g].run <= charts[f].run

\* C21: whenever the server answers, after any runs and at any point of a
\* run, get_latest_charts has a value for each of the five chart types: the
\* name of the file of that type created last, or None when the type has no
\* file or the directory is missing; api_charts turns each name into
\* "/charts/<name>" and keeps None
C21_LatestChartPerType ==
    [][ret' # ret =>
        /\ DOMAIN ret'.charts = DOMAIN patterns
        /\ DOMAIN ret'.chart_urls = DOMAIN patterns
        /\ Cardinality(DOMAIN patterns) = 5
        /\ \A chart_type \in DOMAIN patterns :
              IF ~charts_dir \/ FilesOfType(chart_type) = {}
              THEN /\ ret'.charts[chart_type] = None
                   /\ ret'.chart_urls[chart_type] = None
              ELSE \E f \in FilesOfType(chart_type) :
                      /\ WrittenLast(f, chart_type)
                      /\ ret'.charts[chart_type] = Str(f)
                      /\ ret'.chart_urls[chart_type] = Str(<<"/charts", f>>)]_vars

\* the answer names the later of two dashboards, and has None for the
\* weather conditions, of which there is no file
C21_Witness ==
    /\ ret.called
    /\ charts_dir
    /\ FilesOfType("weather_conditions") = {}
    /\ ret.charts["weather_conditions"] = None
    /\ ret.chart_urls["weather_conditions"] = None
    /\ \E f, g \in FilesOfType("dashboard") :
          /\ charts[g].ctime < charts[f].ctime
          /\ ret.charts["dashboard"] = Str(f)
          /\ ret.chart_urls["dashboard"] = Str(<<"/charts", f>>)

\* the label, the temperature and the humidity of the point are those of one
\* record of the run
OfOneRecord(point) ==
    \E i \in DOMAIN weather_records :
        /\ weather_records[i].city = point.city
        /\ weather_records[i].temperature_c = Num(point.temperature)
        /\ weather_records[i].humidity = Num(point.humidity)

\* C22: every point of the dashboard and of the scatter of a run shows the
\* city, the temperature and the humidity of one and the same record, so no
\* point stands for a record without a temperature, whichever readings of
\* the records are null
C22_PointsAreRecords ==
    \A chart \in DOMAIN plotted :
        \A i \in DOMAIN plotted[chart] : OfOneRecord(plotted[chart][i])

\* the run called generate_graphs, and the call returned or raised
LeftGenerateGraphs ==
    \/ pc \in {"save_to_csv", "returned"}
    \/ pc = "raised" /\ exc.at \in ChartFunctions \cup {"get_weather_data_for_cities",
                                                        "save_to_csv"}

\* C23: once the visualization of a run is over, the run has written exactly
\* one PNG file of each of the five chart types
C23_FivePngsPerRun ==
    LeftGenerateGraphs =>
        /\ Cardinality(ChartTypes) = 5
        /\ \A type \in ChartTypes :
              Cardinality({f \in ChartsOfRun(run) : f.type = type}) = 1

\* analyze_weather_data is called as a run calls it: with the list of cities
\* the records were fetched for
AsInARun == arg.city_list = CitiesOf(arg.fetched)

\* the mean the anomalies were taken from: a temperature less its anomaly
MeanOfAnomalies(found) ==
    LET anomaly == found.temperature_anomalies[found.hottest_city]
    IN  Rat(found.hottest_temp * anomaly.den - anomaly.num, anomaly.den)

\* C24: in a run the summary and the patterns are taken from the same
\* temperatures, also when a city is named twice: both are empty or neither,
\* the hottest temperature is the maximum of the summary, the coldest its
\* minimum, and the anomalies are taken from its average
C24_SameTemperaturesAnalysed ==
    (ret.called /\ AsInARun) =>
        IF ret.stats = None THEN DOMAIN ret.patterns = {}
        ELSE /\ DOMAIN ret.patterns # {}
             /\ ret.patterns.hottest_temp = ret.stats.max
             /\ ret.patterns.coldest_temp = ret.stats.min
             /\ RatEq(MeanOfAnomalies(ret.patterns), ret.stats.average)

\* the last answer of the server is what it would answer now
AnswerIsCurrent == ret.called /\ ret.charts = get_latest_charts(charts_dir, charts)

\* C25: between runs, the files the server names together were all written
\* by one run
C25_LatestChartsOfOneRun ==
    (AnswerIsCurrent /\ main.exit # "running") =>
        \A shown, other \in DOMAIN ret.charts :
            (ret.charts[shown] # None /\ ret.charts[other] # None) =>
                charts[ret.charts[shown].s].run = charts[ret.charts[other].s].run

\* C26: a run of main.py ends, and ends normally, whatever the pipeline did:
\* no exception leaves main; when it has ended the log is the START banner,
\* one outcome message and the END banner, the success message exactly when
\* get_weather_data_for_cities returned and the error message exactly when
\* it raised; and before it ends neither the END banner nor an outcome
\* message is logged
C26_MainLogsEndOnce ==
    /\ <>(main.exit = "exited")
    /\ [](main.exit # "raised")
    /\ [](main.exit = "running" => main.log = <<"START">>)
    /\ [](main.exit = "exited" =>
            /\ pc \in Terminal
            /\ main.log = <<"START", IF pc = "returned" THEN "SUCCESS" ELSE "ERROR", "END">>
            /\ pc = "returned" <=> exc = NoExc)

\* main has ended after a chart function raised
C26_Witness ==
    /\ main.exit = "exited"
    /\ pc = "raised"
    /\ exc.at \in ChartFunctions
    /\ main.log = <<"START", "ERROR", "END">>

====
